---- MODULE Spec2Model ----
(***************************************************************************)
(* Model of the better-auth invite plugin, multi-use variant               *)
(* (src/src/index.ts): the invite and invite_use tables, the user roles,   *)
(* the create and activate endpoints and the after-hook that consumes an   *)
(* invite when a sign-up or sign-in completes.                             *)
(*                                                                         *)
(* Spec      requests run one at a time, each handler is one action.       *)
(* SpecConc  two after-hook executions interleave at their await points.   *)
(***************************************************************************)
EXTENDS Integers, Sequences, FiniteSets, TLC

\* ------------------------------------------------------------------ bounds

\* The clock (getDate) runs over 0..MaxTime.
MaxTime == 2
\* inviteDurationSeconds, in clock ticks.
InviteDuration == 1
\* A pre-existing invite has maxUses in 1..MaxUsesSeed.
MaxUsesSeed == 2

\* ------------------------------------------------------- values and config

UserIds == {"u0", "u1", "u2"}
Codes == {"c1", "c2"}
Procs == {"p1", "p2"}

Absent == "absent"          \* findUserById returns null
NoRole == "norole"          \* the user record has no string role
NoSession == "nosession"    \* the request produced / carries no session
NoCookie == "nocookie"      \* getCookie returns null
NoInvite == 0               \* findOne returns null
NoSetCookie == [set |-> FALSE, value |-> "", expires |-> 0, httpOnly |-> FALSE, path |-> ""]

roleForSignupWithoutInvite == "guest"
roleForSignupWithInvite == "user"
\* The role the host gives a user it creates (the admin plugin's defaultRole).
DefaultRole == "guest"

USER_NOT_LOGGED_IN == "USER_NOT_LOGGED_IN"
INSUFFICIENT_PERMISSIONS == "INSUFFICIENT_PERMISSIONS"
NO_SUCH_USER == "NO_SUCH_USER"
NO_USES_LEFT_FOR_INVITE_CODE == "NO_USES_LEFT_FOR_INVITE_CODE"
INVALID_OR_EXPIRED_INVITE == "INVALID_OR_EXPIRED_INVITE"
NoError == "none"

\* InviteOptions.canCreateInvite: not configured, or a predicate over the user
\* record, given by the users it is true of.
NoPredicate == [defined |-> FALSE, accepts |-> {}]
Predicate(us) == [defined |-> TRUE, accepts |-> us]

\* ------------------------------------------------------------------- state

VARIABLES
    role,        \* user table: user id -> role, or Absent
    invites,     \* invite table: sequence of records, id = position
    inviteUses,  \* invite_use table: sequence of rows, append order
    now,         \* the value getDate returns
    last,        \* the latest step: the request's inputs and the response to it
    activated,   \* codes for which an activate call has succeeded
    procs,       \* SpecConc: each in-flight after-hook's position and locals
    options      \* the plugin's options that vary: canCreateInvite, inviteDurationSeconds

vars == <<role, invites, inviteUses, now, last, activated, procs, options>>

\* ----------------------------------------------------------------- helpers

Epoch == 0

\* Mutant of FindInvite: the where clause is ignored, the first record is returned.
FindInviteIgnoringCode(c) == IF Len(invites) = 0 THEN NoInvite ELSE 1

\* adapter.findOne({model: "invite", where: code = c}): the id of the record, or NoInvite.
FindInvite(c) ==
    LET ids == {i \in 1..Len(invites) : invites[i].code = c}
    IN IF ids = {} THEN NoInvite ELSE CHOOSE i \in ids : \A j \in ids : i <= j

\* Mutant of CountUses: the where clause matches no row.
CountUsesMatchingNothing(usesT, id) ==
    Cardinality({i \in 1..Len(usesT) : usesT[i].inviteId = NoInvite})

\* adapter.count({model: "invite_use", where: inviteId = id}) over the table usesT.
CountUses(usesT, id) ==
    Cardinality({i \in 1..Len(usesT) : usesT[i].inviteId = id})

\* Mutant of IsGuest: the role comparison is left out.
IsGuestAnyRole(roleT, u) ==
    /\ u \in UserIds
    /\ roleT[u] # Absent

\* Mutant of IsGuest: only the full-access roles are excluded.
IsGuestUnlessPrivileged(roleT, u) ==
    /\ u \in UserIds
    /\ roleT[u] # Absent
    /\ roleT[u] \notin {"user", "admin"}

\* isGuest: the user exists and its role is roleForSignupWithoutInvite.
IsGuest(roleT, u) ==
    /\ u \in UserIds
    /\ roleT[u] # Absent
    /\ roleT[u] # NoRole
    /\ roleT[u] = roleForSignupWithoutInvite

\* Mutant of ExpiredAtActivate: the code is rejected at now = expiresAt too.
ExpiredAtActivateInclusive(invite, d) == d >= invite.expiresAt

\* activate's expiry test: opts.getDate() > invite.expiresAt.
ExpiredAtActivate(invite, d) == d > invite.expiresAt

\* Mutant of ExpiredAtHook: the invite's last instant counts as expired.
ExpiredAtHookInclusive(invite, d) == invite.expiresAt <= d

\* Mutant of ExpiredAtHook: the comparison is reversed.
ExpiredAtHookReversed(invite, d) == invite.expiresAt > d

\* the after-hook's expiry test: invite.expiresAt < opts.getDate().
ExpiredAtHook(invite, d) == invite.expiresAt < d

\* Mutant of UsesLeft: off by one.
UsesLeftOffByOne(timesUsed, invite) == timesUsed <= invite.maxUses

\* the after-hook's uses test: timesUsed < invite.maxUses.
UsesLeft(timesUsed, invite) == timesUsed < invite.maxUses

\* Mutant of UseRow: the row is stamped with the invite's creation time.
UseRowStampedAtCreation(id, u, usageDate) ==
    [inviteId |-> id, usedByUserId |-> u, usedAt |-> invites[id].createdAt]

\* Mutant of UseRow: the row names the invite's creator, not its user.
UseRowOfCreator(id, u, usageDate) ==
    [inviteId |-> id, usedByUserId |-> invites[id].createdByUserId, usedAt |-> usageDate]

\* the row the after-hook appends to invite_use.
UseRow(id, u, usageDate) == [inviteId |-> id, usedByUserId |-> u, usedAt |-> usageDate]

\* ctx.setCookie("better-auth.invite-code", "", {expires: new Date(0)}).
ClearCookie == [set |-> TRUE, value |-> "", expires |-> Epoch, httpOnly |-> TRUE, path |-> "/"]

\* Mutant of StageCookie: a cookie readable by scripts that expires with the epoch.
StageCookieLoose(c, invite) ==
    [set |-> TRUE, value |-> c, expires |-> Epoch, httpOnly |-> FALSE, path |-> "/"]

\* ctx.setCookie("better-auth.invite-code", code, {expires: invite.expiresAt}).
StageCookie(c, invite) ==
    [set |-> TRUE, value |-> c, expires |-> invite.expiresAt, httpOnly |-> TRUE, path |-> "/"]

BlankLast ==
    [op |-> "init", user |-> NoSession, code |-> NoCookie, status |-> 0,
     error |-> NoError, setCookie |-> NoSetCookie, outcome |-> "none",
     asked |-> NoSession]

\* ------------------------------------------------------------ the after-hook

\* Mutant of HookStops: the cookie is cleared on every path.
HookStopsClearingCookie(roleT, outcome, err) ==
    [outcome |-> outcome, error |-> err, role |-> roleT, uses |-> inviteUses,
     setCookie |-> ClearCookie, clock |-> now]

\* A run of the after-hook that returns (or throws) before any write.
HookStops(roleT, outcome, err) ==
    [outcome |-> outcome, error |-> err, role |-> roleT, uses |-> inviteUses,
     setCookie |-> NoSetCookie, clock |-> now]

\* Mutant of HookAccepts: the role update is left out.
HookAcceptsWithoutRoleUpdate(roleT, u, id, usageDate) ==
    [outcome |-> "accepted", error |-> NoError, role |-> roleT,
     uses |-> Append(inviteUses, UseRow(id, u, usageDate)),
     setCookie |-> ClearCookie, clock |-> usageDate]

\* Mutant of HookAccepts: the usage row replaces the ledger instead of being
\* appended to it.
HookAcceptsReplacingRows(roleT, u, id, usageDate) ==
    [outcome |-> "accepted", error |-> NoError,
     role |-> [roleT EXCEPT ![u] = roleForSignupWithInvite],
     uses |-> <<UseRow(id, u, usageDate)>>,
     setCookie |-> ClearCookie, clock |-> usageDate]

\* Mutant of HookAccepts: the cookie is not cleared after the consumption.
HookAcceptsKeepingCookie(roleT, u, id, usageDate) ==
    [outcome |-> "accepted", error |-> NoError,
     role |-> [roleT EXCEPT ![u] = roleForSignupWithInvite],
     uses |-> Append(inviteUses, UseRow(id, u, usageDate)),
     setCookie |-> NoSetCookie, clock |-> usageDate]

\* The accepted path: role update, then the usage row, then the cookie is cleared.
HookAccepts(roleT, u, id, usageDate) ==
    [outcome |-> "accepted", error |-> NoError,
     role |-> [roleT EXCEPT ![u] = roleForSignupWithInvite],
     uses |-> Append(inviteUses, UseRow(id, u, usageDate)),
     setCookie |-> ClearCookie, clock |-> usageDate]

\* Mutant of AfterHook: a code that was activated is taken as reserved and is
\* consumed without being validated again.
AfterHookTrustingActivate(roleT, sess, cookie, adv) ==
    IF sess = NoSession THEN HookStops(roleT, "noSession", NoError)
    ELSE IF ~IsGuest(roleT, sess) THEN HookStops(roleT, "notGuest", NoError)
    ELSE IF cookie = NoCookie THEN HookStops(roleT, "noCookie", NoError)
    ELSE LET id == FindInvite(cookie) IN
      IF id = NoInvite THEN HookStops(roleT, "notFound", NoError)
      ELSE IF cookie \in activated THEN HookAccepts(roleT, sess, id, now + adv)
      ELSE IF ExpiredAtHook(invites[id], now) THEN HookStops(roleT, "expired", NoError)
      ELSE LET timesUsed == CountUses(inviteUses, id) IN
        IF ~UsesLeft(timesUsed, invites[id])
        THEN HookStops(roleT, "exhausted", NO_USES_LEFT_FOR_INVITE_CODE)
        ELSE HookAccepts(roleT, sess, id, now + adv)

\* hooks.after handler, run to completion on the user table roleT for the new
\* session's user sess and the request's cookie; getDate is read at the expiry
\* test and, on the accepted path only, again adv ticks later for usedAt.
AfterHook(roleT, sess, cookie, adv) ==
    IF sess = NoSession THEN HookStops(roleT, "noSession", NoError)
    ELSE IF ~IsGuest(roleT, sess) THEN HookStops(roleT, "notGuest", NoError)
    ELSE IF cookie = NoCookie THEN HookStops(roleT, "noCookie", NoError)
    ELSE LET id == FindInvite(cookie) IN
      IF id = NoInvite THEN HookStops(roleT, "notFound", NoError)
      ELSE IF ExpiredAtHook(invites[id], now) THEN HookStops(roleT, "expired", NoError)
      ELSE LET timesUsed == CountUses(inviteUses, id) IN
        IF ~UsesLeft(timesUsed, invites[id])
        THEN HookStops(roleT, "exhausted", NO_USES_LEFT_FOR_INVITE_CODE)
        ELSE HookAccepts(roleT, sess, id, now + adv)

\* The host's response to a matched request whose after-hook ran as h.
HookResponse(op, sess, cookie, h) ==
    [op |-> op, user |-> sess, code |-> cookie,
     status |-> IF h.error = NoError THEN 200 ELSE 400,
     error |-> h.error, setCookie |-> h.setCookie, outcome |-> h.outcome,
     asked |-> NoSession]

\* POST /sign-up/email: the host creates the user with the default role and a
\* session, then the after-hook runs.
SignUp(u, cookie, adv) ==
    /\ role[u] = Absent
    /\ now + adv <= MaxTime
    /\ LET h == AfterHook([role EXCEPT ![u] = DefaultRole], u, cookie, adv)
       IN /\ h.outcome # "accepted" => adv = 0
          /\ role' = h.role
          /\ inviteUses' = h.uses
          /\ now' = h.clock
          /\ last' = HookResponse("signup", u, cookie, h)
    /\ UNCHANGED <<invites, activated, procs, options>>

\* Mutant of SignIn: the hook runs for the request's user without a new session.
SignInIgnoringSession(u, cookie, ok, adv) ==
    /\ role[u] # Absent
    /\ now + adv <= MaxTime
    /\ LET sess == IF ok THEN u ELSE NoSession
           h == AfterHook(role, u, cookie, adv)
       IN /\ h.outcome # "accepted" => adv = 0
          /\ role' = h.role
          /\ inviteUses' = h.uses
          /\ now' = h.clock
          /\ last' = HookResponse("signin", sess, cookie, h)
    /\ UNCHANGED <<invites, activated, procs, options>>

\* POST /sign-in/email (or email-otp, or the OAuth callback): with ok the host
\* opens a session for the existing user u, without it there is no new session.
SignIn(u, cookie, ok, adv) ==
    /\ role[u] # Absent
    /\ now + adv <= MaxTime
    /\ LET sess == IF ok THEN u ELSE NoSession
           h == AfterHook(role, sess, cookie, adv)
       IN /\ h.outcome # "accepted" => adv = 0
          /\ role' = h.role
          /\ inviteUses' = h.uses
          /\ now' = h.clock
          /\ last' = HookResponse("signin", sess, cookie, h)
    /\ UNCHANGED <<invites, activated, procs, options>>

\* ------------------------------------------------------------- the endpoints

\* A request that fails before any write or cookie.
Refuse(op, sess, c, err) ==
    [BlankLast EXCEPT !.op = op, !.user = sess, !.code = c, !.status = 400,
                      !.error = err, !.outcome = "refused"]

\* Mutant of CanCreateInvite: the predicate is combined with the default check.
CanCreateInviteCombined(u) ==
    IF options.canCreateInvite.defined
    THEN u \in options.canCreateInvite.accepts /\ ~IsGuest(role, u)
    ELSE ~IsGuest(role, u)

\* canCreateInvite: the configured predicate if there is one, else the default,
\* everyone but a guest.
CanCreateInvite(u) ==
    IF options.canCreateInvite.defined
    THEN u \in options.canCreateInvite.accepts
    ELSE ~IsGuest(role, u)

\* The user the configured predicate was called with, NoSession when it was not.
PredicateArg(u) == IF options.canCreateInvite.defined THEN u ELSE NoSession

\* Mutant of NewInvite: the duration is left out of expiresAt.
NewInviteWithoutDuration(c, u, d) ==
    [id |-> Len(invites) + 1, code |-> c, createdByUserId |-> u, createdAt |-> d,
     expiresAt |-> d, maxUses |-> 1]

\* The record endpoints.create stores.
NewInvite(c, u, d) ==
    [id |-> Len(invites) + 1, code |-> c, createdByUserId |-> u, createdAt |-> d,
     expiresAt |-> d + options.inviteDurationSeconds, maxUses |-> 1]

\* Mutant of Create: the code column is not unique, the store takes every record.
CreateWithoutUniqueCode(sess, c) ==
    /\ IF sess = NoSession
         THEN /\ last' = Refuse("create", sess, NoCookie, USER_NOT_LOGGED_IN)
              /\ UNCHANGED invites
       ELSE IF role[sess] = Absent
         THEN /\ last' = Refuse("create", sess, NoCookie, NO_SUCH_USER)
              /\ UNCHANGED invites
       ELSE IF ~CanCreateInvite(sess)
         THEN /\ last' = [Refuse("create", sess, NoCookie, INSUFFICIENT_PERMISSIONS)
                            EXCEPT !.asked = PredicateArg(sess)]
              /\ UNCHANGED invites
       ELSE /\ invites' = Append(invites, NewInvite(c, sess, now))
            /\ last' = [BlankLast EXCEPT !.op = "create", !.user = sess, !.code = c,
                                         !.status = 201, !.outcome = "created",
                                         !.asked = PredicateArg(sess)]
    /\ UNCHANGED <<role, inviteUses, now, activated, procs, options>>

\* Mutant of Create: eligibility is evaluated before the user is looked up.
CreateEligibilityFirst(sess, c) ==
    /\ IF sess = NoSession
         THEN /\ last' = Refuse("create", sess, NoCookie, USER_NOT_LOGGED_IN)
              /\ UNCHANGED invites
       ELSE IF ~CanCreateInvite(sess)
         THEN /\ last' = [Refuse("create", sess, NoCookie, INSUFFICIENT_PERMISSIONS)
                            EXCEPT !.asked = PredicateArg(sess)]
              /\ UNCHANGED invites
       ELSE IF role[sess] = Absent
         THEN /\ last' = [Refuse("create", sess, NoCookie, NO_SUCH_USER)
                            EXCEPT !.asked = PredicateArg(sess)]
              /\ UNCHANGED invites
       ELSE IF FindInvite(c) # NoInvite
         THEN /\ last' = [Refuse("create", sess, c, "UNIQUE_CONSTRAINT")
                            EXCEPT !.status = 500, !.asked = PredicateArg(sess)]
              /\ UNCHANGED invites
       ELSE /\ invites' = Append(invites, NewInvite(c, sess, now))
            /\ last' = [BlankLast EXCEPT !.op = "create", !.user = sess, !.code = c,
                                         !.status = 201, !.outcome = "created",
                                         !.asked = PredicateArg(sess)]
    /\ UNCHANGED <<role, inviteUses, now, activated, procs, options>>

\* POST /invite/create by session user sess (or none), generateCode returning c.
\* The code column is unique: the store refuses a second record with that code.
Create(sess, c) ==
    /\ IF sess = NoSession
         THEN /\ last' = Refuse("create", sess, NoCookie, USER_NOT_LOGGED_IN)
              /\ UNCHANGED invites
       ELSE IF role[sess] = Absent
         THEN /\ last' = Refuse("create", sess, NoCookie, NO_SUCH_USER)
              /\ UNCHANGED invites
       ELSE IF ~CanCreateInvite(sess)
         THEN /\ last' = [Refuse("create", sess, NoCookie, INSUFFICIENT_PERMISSIONS)
                            EXCEPT !.asked = PredicateArg(sess)]
              /\ UNCHANGED invites
       ELSE IF FindInvite(c) # NoInvite
         THEN /\ last' = [Refuse("create", sess, c, "UNIQUE_CONSTRAINT")
                            EXCEPT !.status = 500, !.asked = PredicateArg(sess)]
              /\ UNCHANGED invites
       ELSE /\ invites' = Append(invites, NewInvite(c, sess, now))
            /\ last' = [BlankLast EXCEPT !.op = "create", !.user = sess, !.code = c,
                                         !.status = 201, !.outcome = "created",
                                         !.asked = PredicateArg(sess)]
    /\ UNCHANGED <<role, inviteUses, now, activated, procs, options>>

\* Mutant of Activate: a successful activation writes a usage row.
ActivateConsuming(c) ==
    /\ LET id == FindInvite(c) IN
       IF id = NoInvite
         THEN /\ last' = Refuse("activate", NoSession, c, INVALID_OR_EXPIRED_INVITE)
              /\ UNCHANGED <<activated, inviteUses>>
       ELSE LET timesUsed == CountUses(inviteUses, id) IN
         IF ~UsesLeft(timesUsed, invites[id])
           THEN /\ last' = Refuse("activate", NoSession, c, NO_USES_LEFT_FOR_INVITE_CODE)
                /\ UNCHANGED <<activated, inviteUses>>
         ELSE IF ExpiredAtActivate(invites[id], now)
           THEN /\ last' = Refuse("activate", NoSession, c, INVALID_OR_EXPIRED_INVITE)
                /\ UNCHANGED <<activated, inviteUses>>
         ELSE /\ last' = [BlankLast EXCEPT !.op = "activate", !.code = c, !.status = 200,
                                           !.outcome = "activated",
                                           !.setCookie = StageCookie(c, invites[id])]
              /\ activated' = activated \cup {c}
              /\ inviteUses' = Append(inviteUses, UseRow(id, NoSession, now))
    /\ UNCHANGED <<role, invites, now, procs, options>>

\* Mutant of Activate: expiry is tested before the uses.
ActivateExpiryFirst(c) ==
    /\ LET id == FindInvite(c) IN
       IF id = NoInvite
         THEN /\ last' = Refuse("activate", NoSession, c, INVALID_OR_EXPIRED_INVITE)
              /\ UNCHANGED activated
       ELSE LET timesUsed == CountUses(inviteUses, id) IN
         IF ExpiredAtActivate(invites[id], now)
           THEN /\ last' = Refuse("activate", NoSession, c, INVALID_OR_EXPIRED_INVITE)
                /\ UNCHANGED activated
         ELSE IF ~UsesLeft(timesUsed, invites[id])
           THEN /\ last' = Refuse("activate", NoSession, c, NO_USES_LEFT_FOR_INVITE_CODE)
                /\ UNCHANGED activated
         ELSE /\ last' = [BlankLast EXCEPT !.op = "activate", !.code = c, !.status = 200,
                                           !.outcome = "activated",
                                           !.setCookie = StageCookie(c, invites[id])]
              /\ activated' = activated \cup {c}
    /\ UNCHANGED <<role, invites, inviteUses, now, procs, options>>

\* POST /invite/activate with body {code: c}.
Activate(c) ==
    /\ LET id == FindInvite(c) IN
       IF id = NoInvite
         THEN /\ last' = Refuse("activate", NoSession, c, INVALID_OR_EXPIRED_INVITE)
              /\ UNCHANGED activated
       ELSE LET timesUsed == CountUses(inviteUses, id) IN
         IF ~UsesLeft(timesUsed, invites[id])
           THEN /\ last' = Refuse("activate", NoSession, c, NO_USES_LEFT_FOR_INVITE_CODE)
                /\ UNCHANGED activated
         ELSE IF ExpiredAtActivate(invites[id], now)
           THEN /\ last' = Refuse("activate", NoSession, c, INVALID_OR_EXPIRED_INVITE)
                /\ UNCHANGED activated
         ELSE /\ last' = [BlankLast EXCEPT !.op = "activate", !.code = c, !.status = 200,
                                           !.outcome = "activated",
                                           !.setCookie = StageCookie(c, invites[id])]
              /\ activated' = activated \cup {c}
    /\ UNCHANGED <<role, invites, inviteUses, now, procs, options>>

\* Time passes between requests.
Tick ==
    /\ now < MaxTime
    /\ now' = now + 1
    /\ last' = [BlankLast EXCEPT !.op = "tick"]
    /\ UNCHANGED <<role, invites, inviteUses, activated, procs, options>>

\* ------------------------------------------------------------ specification

\* An invite stored before the plugin's first request, as the tests' fixtures do.
SeedInvite(m) ==
    [id |-> 1, code |-> "c1", createdByUserId |-> "u0", createdAt |-> 0,
     expiresAt |-> InviteDuration, maxUses |-> m]

IdleProc ==
    [pc |-> "idle", user |-> NoSession, cookie |-> NoCookie, invite |-> NoInvite,
     timesUsed |-> 0, usageDate |-> 0, outcome |-> "none"]

\* The fixture: one user with full access, one stored invite, no usage rows.
Init ==
    /\ role = [u \in UserIds |-> IF u = "u0" THEN "user" ELSE Absent]
    /\ invites \in {<<SeedInvite(m)>> : m \in 1..MaxUsesSeed}
    /\ inviteUses = <<>>
    /\ now = 0
    /\ last = BlankLast
    /\ activated = {}
    /\ procs = [p \in Procs |-> IdleProc]
    /\ options = [canCreateInvite |-> NoPredicate, inviteDurationSeconds |-> InviteDuration]

CookieValues == Codes \cup {NoCookie}

Next ==
    \/ \E sess \in UserIds \cup {NoSession}, c \in Codes : Create(sess, c)
    \/ \E c \in Codes : Activate(c)
    \/ \E u \in UserIds, ck \in CookieValues, adv \in 0..1 : SignUp(u, ck, adv)
    \/ \E u \in UserIds, ck \in CookieValues, ok \in BOOLEAN, adv \in 0..1 : SignIn(u, ck, ok, adv)
    \/ Tick

Spec == Init /\ [][Next]_vars

\* --------------------------------------- create under every configuration

\* The roles a stored user record can carry when the plugin first sees it.
StoredRoles == {"user", "admin", roleForSignupWithoutInvite, NoRole}

\* The predicates a deployment configures, by the users they are true of.
Predicates == {Predicate(us) : us \in SUBSET {"u0", "u1"}}

\* The fixture with the creator's role and the canCreateInvite option varied.
InitCreate ==
    /\ role \in {[u \in UserIds |-> IF u = "u0" THEN r ELSE Absent] : r \in StoredRoles}
    /\ invites = <<SeedInvite(1)>>
    /\ inviteUses = <<>>
    /\ now = 0
    /\ last = BlankLast
    /\ activated = {}
    /\ procs = [p \in Procs |-> IdleProc]
    /\ options \in {[canCreateInvite |-> f, inviteDurationSeconds |-> InviteDuration] :
                        f \in {NoPredicate} \cup Predicates}

NextCreate ==
    \/ \E sess \in UserIds \cup {NoSession}, c \in Codes : Create(sess, c)
    \/ \E u \in UserIds, ck \in CookieValues : SignUp(u, ck, 0)
    \/ Tick

SpecCreate == InitCreate /\ [][NextCreate]_vars

\* ------------------------------------- create under every configured duration

\* The values InviteOptions.inviteDurationSeconds (a number, not validated)
\* can take: negative, zero and positive.
Durations == (0 - 1)..InviteDuration

\* The fixture with inviteDurationSeconds varied.
InitDuration ==
    /\ role = [u \in UserIds |-> IF u = "u0" THEN "user" ELSE Absent]
    /\ invites = <<SeedInvite(1)>>
    /\ inviteUses = <<>>
    /\ now = 0
    /\ last = BlankLast
    /\ activated = {}
    /\ procs = [p \in Procs |-> IdleProc]
    /\ options \in {[canCreateInvite |-> NoPredicate, inviteDurationSeconds |-> s] :
                        s \in Durations}

SpecDuration == InitDuration /\ [][NextCreate]_vars

\* --------------------------------------- the after-hook for every stored user

\* A matched sign-in whose new session names a user that findUserById does not
\* return (the record is gone from the store).
SignInUnstored(u, cookie) ==
    /\ role[u] = Absent
    /\ LET h == AfterHook(role, u, cookie, 0)
       IN /\ role' = h.role
          /\ inviteUses' = h.uses
          /\ now' = h.clock
          /\ last' = HookResponse("signin", u, cookie, h)
    /\ UNCHANGED <<invites, activated, procs, options>>

\* POST /sign-up/email that the host rejects: no user and no new session are
\* created, and the after-hook's safeParse of newSession fails.
SignUpRejected(cookie) ==
    /\ LET h == AfterHook(role, NoSession, cookie, 0)
       IN /\ role' = h.role
          /\ inviteUses' = h.uses
          /\ now' = h.clock
          /\ last' = HookResponse("signup", NoSession, cookie, h)
    /\ UNCHANGED <<invites, activated, procs, options>>

\* The fixture with every stored role, and no record at all, for each user.
InitRoles ==
    /\ role \in [UserIds -> StoredRoles \cup {Absent}]
    /\ invites \in {<<SeedInvite(m)>> : m \in 1..MaxUsesSeed}
    /\ inviteUses = <<>>
    /\ now = 0
    /\ last = BlankLast
    /\ activated = {}
    /\ procs = [p \in Procs |-> IdleProc]
    /\ options = [canCreateInvite |-> NoPredicate, inviteDurationSeconds |-> InviteDuration]

NextRoles ==
    \/ \E u \in UserIds, ck \in CookieValues, ok \in BOOLEAN, adv \in 0..1 : SignIn(u, ck, ok, adv)
    \/ \E ck \in CookieValues : SignUpRejected(ck)
    \/ \E u \in UserIds, ck \in CookieValues : SignInUnstored(u, ck)
    \/ Tick

SpecRoles == InitRoles /\ [][NextRoles]_vars

\* ------------------------------------------------ the after-hook's matcher

\* Paths of the host on which a request can end with a new session: one the
\* plugin matches and one it does not.
SessionPaths == {"/callback/:id", "/sign-in/username"}

\* Mutant of Matcher: the after-hook is attached to every path.
MatcherEveryPath(path) == path = path

\* hooks.after[0].matcher.
Matcher(path) ==
    path \in {"/sign-up/email", "/sign-in/email", "/sign-in/email-otp", "/callback/:id"}

\* A request on path that opens a session for the stored user u and carries
\* the cookie: the handler runs only when the matcher accepts the path.
HostRequest(path, u, cookie) ==
    /\ role[u] # Absent
    /\ LET h == IF Matcher(path) THEN AfterHook(role, u, cookie, 0)
                ELSE HookStops(role, "unmatched", NoError)
       IN /\ role' = h.role
          /\ inviteUses' = h.uses
          /\ now' = h.clock
          /\ last' = HookResponse(path, u, cookie, h)
    /\ UNCHANGED <<invites, activated, procs, options>>

NextPaths ==
    \/ \E sess \in UserIds \cup {NoSession}, c \in Codes : Create(sess, c)
    \/ \E c \in Codes : Activate(c)
    \/ \E u \in UserIds, ck \in CookieValues : SignUp(u, ck, 0)
    \/ \E path \in SessionPaths, u \in UserIds, ck \in CookieValues : HostRequest(path, u, ck)
    \/ Tick

SpecPaths == Init /\ [][NextPaths]_vars

\* ------------------------------------------- the after-hook with a failing store

\* Mutant of HookFailsAtCreate: the role update is undone when the write fails.
HookFailsAtCreateRollingBack(roleT, u) ==
    [outcome |-> "writeFailed", error |-> "INTERNAL_SERVER_ERROR", role |-> roleT,
     uses |-> inviteUses, setCookie |-> NoSetCookie, clock |-> now]

\* The accepted path when adapter.create of the usage row rejects: the role
\* update is done, the error leaves the handler before the row exists and
\* before the cookie is cleared.
HookFailsAtCreate(roleT, u) ==
    [outcome |-> "writeFailed", error |-> "INTERNAL_SERVER_ERROR",
     role |-> [roleT EXCEPT ![u] = roleForSignupWithInvite],
     uses |-> inviteUses, setCookie |-> NoSetCookie, clock |-> now]

\* POST /sign-up/email whose after-hook reaches the usage-row write, which fails.
SignUpStoreFails(u, cookie) ==
    /\ role[u] = Absent
    /\ AfterHook([role EXCEPT ![u] = DefaultRole], u, cookie, 0).outcome = "accepted"
    /\ LET h == HookFailsAtCreate([role EXCEPT ![u] = DefaultRole], u)
       IN /\ role' = h.role
          /\ inviteUses' = h.uses
          /\ last' = [HookResponse("signup", u, cookie, h) EXCEPT !.status = 500]
    /\ UNCHANGED <<invites, now, activated, procs, options>>

\* POST /sign-in/email whose after-hook reaches the usage-row write, which fails.
SignInStoreFails(u, cookie) ==
    /\ role[u] # Absent
    /\ AfterHook(role, u, cookie, 0).outcome = "accepted"
    /\ LET h == HookFailsAtCreate(role, u)
       IN /\ role' = h.role
          /\ inviteUses' = h.uses
          /\ last' = [HookResponse("signin", u, cookie, h) EXCEPT !.status = 500]
    /\ UNCHANGED <<invites, now, activated, procs, options>>

NextFail ==
    \/ \E u \in UserIds, ck \in CookieValues, adv \in 0..1 : SignUp(u, ck, adv)
    \/ \E u \in UserIds, ck \in CookieValues, ok \in BOOLEAN, adv \in 0..1 : SignIn(u, ck, ok, adv)
    \/ \E u \in UserIds, ck \in CookieValues : SignUpStoreFails(u, ck)
    \/ \E u \in UserIds, ck \in CookieValues : SignInStoreFails(u, ck)
    \/ Tick

SpecFail == Init /\ [][NextFail]_vars

\* ---------------------------------------------------- the single-use variant
\* The variant that keeps usedByUserId and usedAt on the invite itself and has
\* no invite_use table: the invites variable holds its records.

NullUser == "null"          \* usedByUserId: null
NullDate == 0 - 1           \* usedAt: null

\* The record the single-use endpoints.create stores: usedByUserId is null and
\* usedAt is left out, which the store reads back as null.
NewInviteSingle(c, u, d) ==
    [id |-> Len(invites) + 1, code |-> c, invitedByUserId |-> u,
     usedByUserId |-> NullUser, createdAt |-> d,
     expiresAt |-> d + options.inviteDurationSeconds, usedAt |-> NullDate]

\* Single-use POST /invite/create by session user sess, generateCode returning c.
CreateSingle(sess, c) ==
    /\ IF sess = NoSession
         THEN /\ last' = Refuse("create", sess, NoCookie, USER_NOT_LOGGED_IN)
              /\ UNCHANGED invites
       ELSE IF role[sess] = Absent
         THEN /\ last' = Refuse("create", sess, NoCookie, NO_SUCH_USER)
              /\ UNCHANGED invites
       ELSE IF ~CanCreateInvite(sess)
         THEN /\ last' = [Refuse("create", sess, NoCookie, INSUFFICIENT_PERMISSIONS)
                            EXCEPT !.asked = PredicateArg(sess)]
              /\ UNCHANGED invites
       ELSE IF FindInvite(c) # NoInvite
         THEN /\ last' = [Refuse("create", sess, c, "UNIQUE_CONSTRAINT")
                            EXCEPT !.status = 500, !.asked = PredicateArg(sess)]
              /\ UNCHANGED invites
       ELSE /\ invites' = Append(invites, NewInviteSingle(c, sess, now))
            /\ last' = [BlankLast EXCEPT !.op = "create", !.user = sess, !.code = c,
                                         !.status = 201, !.outcome = "created",
                                         !.asked = PredicateArg(sess)]
    /\ UNCHANGED <<role, inviteUses, now, activated, procs, options>>

\* POST /invite/redeem with body {code: c}: the code is looked up and, when a
\* record is found, staged in the cookie; nothing else is tested.
Redeem(c) ==
    /\ LET id == FindInvite(c) IN
       IF id = NoInvite
         THEN /\ last' = [Refuse("redeem", NoSession, c, "invalid_invite")
                            EXCEPT !.status = 302]
              /\ UNCHANGED activated
       ELSE /\ last' = [BlankLast EXCEPT !.op = "redeem", !.code = c, !.status = 200,
                                         !.outcome = "redeemed",
                                         !.setCookie = StageCookie(c, invites[id])]
            /\ activated' = activated \cup {c}
    /\ UNCHANGED <<role, invites, inviteUses, now, procs, options>>

\* Mutant of HookStopsSingle: the cookie is cleared on every path.
HookStopsSingleClearingCookie(roleT, outcome) ==
    [outcome |-> outcome, error |-> NoError, role |-> roleT, invites |-> invites,
     setCookie |-> ClearCookie, clock |-> now]

\* A run of the single-use after-hook that returns before any write.
HookStopsSingle(roleT, outcome) ==
    [outcome |-> outcome, error |-> NoError, role |-> roleT, invites |-> invites,
     setCookie |-> NoSetCookie, clock |-> now]

\* Mutant of MarkUsed: usedAt is taken from the invite's creation, not from getDate.
MarkUsedAtCreation(c, u, usageDate) ==
    [i \in 1..Len(invites) |->
        IF invites[i].code = c
        THEN [invites[i] EXCEPT !.usedByUserId = u, !.usedAt = invites[i].createdAt]
        ELSE invites[i]]

\* Mutant of MarkUsed: only usedAt is written.
MarkUsedWithoutUser(c, u, usageDate) ==
    [i \in 1..Len(invites) |->
        IF invites[i].code = c
        THEN [invites[i] EXCEPT !.usedAt = usageDate]
        ELSE invites[i]]

\* adapter.update({model: "invite", where: code = c, update: {usedByUserId, usedAt}}).
MarkUsed(c, u, usageDate) ==
    [i \in 1..Len(invites) |->
        IF invites[i].code = c
        THEN [invites[i] EXCEPT !.usedByUserId = u, !.usedAt = usageDate]
        ELSE invites[i]]

\* The accepted path of the single-use hook: role update, then the invite is
\* marked used, then the cookie is cleared.
HookAcceptsSingle(roleT, u, c, usageDate) ==
    [outcome |-> "accepted", error |-> NoError,
     role |-> [roleT EXCEPT ![u] = roleForSignupWithInvite],
     invites |-> MarkUsed(c, u, usageDate),
     setCookie |-> ClearCookie, clock |-> usageDate]

\* Mutant of AlreadyUsed: the used guard is left out.
AlreadyUsedNever(invite) == FALSE

\* The single-use invite's used guard: invite.usedAt !== null.
AlreadyUsed(invite) == invite.usedAt # NullDate

\* The single-use hooks.after handler, run to completion; getDate is read at
\* the expiry test and, on the accepted path, again adv ticks later for usedAt.
AfterHookSingle(roleT, sess, cookie, adv) ==
    IF sess = NoSession THEN HookStopsSingle(roleT, "noSession")
    ELSE IF ~IsGuest(roleT, sess) THEN HookStopsSingle(roleT, "notGuest")
    ELSE IF cookie = NoCookie THEN HookStopsSingle(roleT, "noCookie")
    ELSE LET id == FindInvite(cookie) IN
      IF id = NoInvite THEN HookStopsSingle(roleT, "notFound")
      ELSE IF AlreadyUsed(invites[id]) THEN HookStopsSingle(roleT, "used")
      ELSE IF ExpiredAtHook(invites[id], now) THEN HookStopsSingle(roleT, "expired")
      ELSE HookAcceptsSingle(roleT, sess, cookie, now + adv)

\* The host's response to a matched request whose single-use after-hook ran as h.
HookResponseSingle(op, sess, cookie, h) ==
    [op |-> op, user |-> sess, code |-> cookie, status |-> 200,
     error |-> h.error, setCookie |-> h.setCookie, outcome |-> h.outcome,
     asked |-> NoSession]

\* POST /sign-up/email under the single-use plugin.
SignUpSingle(u, cookie, adv) ==
    /\ role[u] = Absent
    /\ now + adv <= MaxTime
    /\ LET h == AfterHookSingle([role EXCEPT ![u] = DefaultRole], u, cookie, adv)
       IN /\ h.outcome # "accepted" => adv = 0
          /\ role' = h.role
          /\ invites' = h.invites
          /\ now' = h.clock
          /\ last' = HookResponseSingle("signup", u, cookie, h)
    /\ UNCHANGED <<inviteUses, activated, procs, options>>

\* POST /sign-in/email (or email-otp, or the OAuth callback) under the
\* single-use plugin.
SignInSingle(u, cookie, ok, adv) ==
    /\ role[u] # Absent
    /\ now + adv <= MaxTime
    /\ LET sess == IF ok THEN u ELSE NoSession
           h == AfterHookSingle(role, sess, cookie, adv)
       IN /\ h.outcome # "accepted" => adv = 0
          /\ role' = h.role
          /\ invites' = h.invites
          /\ now' = h.clock
          /\ last' = HookResponseSingle("signin", sess, cookie, h)
    /\ UNCHANGED <<inviteUses, activated, procs, options>>

\* An unused invite stored before the first request, as the tests' fixtures do.
SeedInviteSingle ==
    [id |-> 1, code |-> "c1", invitedByUserId |-> "u0", usedByUserId |-> NullUser,
     createdAt |-> 0, expiresAt |-> InviteDuration, usedAt |-> NullDate]

\* The single-use fixture: one user with full access, one unused invite.
InitSingle ==
    /\ role = [u \in UserIds |-> IF u = "u0" THEN "user" ELSE Absent]
    /\ invites = <<SeedInviteSingle>>
    /\ inviteUses = <<>>
    /\ now = 0
    /\ last = BlankLast
    /\ activated = {}
    /\ procs = [p \in Procs |-> IdleProc]
    /\ options = [canCreateInvite |-> NoPredicate, inviteDurationSeconds |-> InviteDuration]

NextSingle ==
    \/ \E sess \in UserIds \cup {NoSession}, c \in Codes : CreateSingle(sess, c)
    \/ \E c \in Codes : Redeem(c)
    \/ \E u \in UserIds, ck \in CookieValues, adv \in 0..1 : SignUpSingle(u, ck, adv)
    \/ \E u \in UserIds, ck \in CookieValues, ok \in BOOLEAN, adv \in 0..1 :
          SignInSingle(u, ck, ok, adv)
    \/ Tick

SpecSingle == InitSingle /\ [][NextSingle]_vars

\* ------------------------------------------------------------ the hard gate
\* The redeem-then-signup variant with the signupRequiresInvite option: its
\* tests and README are in the repository, its handler is modelled from the
\* specification's lifecycle (a before-hook that can veto the sign-up).

AN_INVITE_CODE_IS_REQUIRED_TO_SIGN_UP == "AN_INVITE_CODE_IS_REQUIRED_TO_SIGN_UP"

\* The validator on the cookie's code: found, unused and not expired.
ValidSingle(ck) ==
    /\ ck # NoCookie
    /\ FindInvite(ck) # NoInvite
    /\ ~AlreadyUsed(invites[FindInvite(ck)])
    /\ ~ExpiredAtHook(invites[FindInvite(ck)], now)

\* Mutant of GateVetoes: the gate is never applied.
GateVetoesNever(ck) == FALSE

\* The before-hook vetoes the sign-up: the gate is configured and the request
\* carries no cookie, or one whose code is not valid.
GateVetoes(ck) == options.signupRequiresInvite /\ ~ValidSingle(ck)

\* POST /sign-up/email under the hard-gate variant: vetoed with 403 before the
\* account exists, or the account is created and a valid code is consumed.
SignUpGated(u, ck) ==
    /\ role[u] = Absent
    /\ IF GateVetoes(ck)
         THEN /\ last' = [Refuse("signup", u, ck, AN_INVITE_CODE_IS_REQUIRED_TO_SIGN_UP)
                            EXCEPT !.status = 403]
              /\ UNCHANGED <<role, invites>>
       ELSE /\ role' = [role EXCEPT ![u] = NoRole]
            /\ IF ValidSingle(ck)
                 THEN /\ invites' = MarkUsed(ck, u, now)
                      /\ last' = [BlankLast EXCEPT !.op = "signup", !.user = u,
                                     !.code = ck, !.status = 200, !.outcome = "accepted",
                                     !.setCookie = ClearCookie]
               ELSE /\ UNCHANGED invites
                    /\ last' = [BlankLast EXCEPT !.op = "signup", !.user = u,
                                   !.code = ck, !.status = 200, !.outcome = "ignored"]
    /\ UNCHANGED <<inviteUses, now, activated, procs, options>>

\* The hard-gate fixture: a user without a role, one unused invite, and the
\* gate configured either way.
InitGate ==
    /\ role = [u \in UserIds |-> IF u = "u0" THEN NoRole ELSE Absent]
    /\ invites = <<SeedInviteSingle>>
    /\ inviteUses = <<>>
    /\ now = 0
    /\ last = BlankLast
    /\ activated = {}
    /\ procs = [p \in Procs |-> IdleProc]
    /\ options \in {[canCreateInvite |-> NoPredicate,
                      inviteDurationSeconds |-> InviteDuration,
                      signupRequiresInvite |-> g] : g \in BOOLEAN}

NextGate ==
    \/ \E u \in UserIds, ck \in CookieValues : SignUpGated(u, ck)
    \/ \E sess \in UserIds \cup {NoSession}, c \in Codes : CreateSingle(sess, c)
    \/ Tick

SpecGate == InitGate /\ [][NextGate]_vars

\* ------------------------------------- the after-hook, one await at a time

\* The request of process p is over, with the given outcome.
Finish(p, outcome) == procs' = [procs EXCEPT ![p].pc = "done", ![p].outcome = outcome]

\* The host starts a request of process p for user u with the cookie ck: the
\* handler's locals are fresh and its first await (findUserById) is pending.
Begin(p, u, ck) ==
    /\ procs[p].pc \in {"idle", "done"}
    /\ procs' = [procs EXCEPT ![p] = [IdleProc EXCEPT !.pc = "findUser", !.user = u,
                                                      !.cookie = ck]]

\* POST /sign-up/email reaches the after-hook: the user exists with the default role.
BeginSignUp(p, u, ck) ==
    /\ role[u] = Absent
    /\ Begin(p, u, ck)
    /\ role' = [role EXCEPT ![u] = DefaultRole]
    /\ UNCHANGED <<invites, inviteUses, now, last, activated, options>>

\* POST /sign-in/email reaches the after-hook with a new session of user u.
BeginSignIn(p, u, ck) ==
    /\ role[u] # Absent
    /\ Begin(p, u, ck)
    /\ UNCHANGED <<role, invites, inviteUses, now, last, activated, options>>

\* findUserById resolves; isGuest and the cookie are tested.
StepFindUser(p) ==
    /\ procs[p].pc = "findUser"
    /\ IF ~IsGuest(role, procs[p].user) THEN Finish(p, "notGuest")
       ELSE IF procs[p].cookie = NoCookie THEN Finish(p, "noCookie")
       ELSE procs' = [procs EXCEPT ![p].pc = "findInvite"]
    /\ UNCHANGED <<role, invites, inviteUses, now, last, activated, options>>

\* findOne resolves; the invite and its expiry (getDate) are tested.
StepFindInvite(p) ==
    /\ procs[p].pc = "findInvite"
    /\ LET id == FindInvite(procs[p].cookie) IN
       IF id = NoInvite THEN Finish(p, "notFound")
       ELSE IF ExpiredAtHook(invites[id], now)
         THEN procs' = [procs EXCEPT ![p].pc = "done", ![p].outcome = "expired",
                                     ![p].invite = id]
       ELSE procs' = [procs EXCEPT ![p].pc = "count", ![p].invite = id]
    /\ UNCHANGED <<role, invites, inviteUses, now, last, activated, options>>

\* count resolves; the uses left are tested.
StepCount(p) ==
    /\ procs[p].pc = "count"
    /\ LET timesUsed == CountUses(inviteUses, procs[p].invite) IN
       IF ~UsesLeft(timesUsed, invites[procs[p].invite])
         THEN procs' = [procs EXCEPT ![p].pc = "done", ![p].outcome = "exhausted",
                                     ![p].timesUsed = timesUsed]
       ELSE procs' = [procs EXCEPT ![p].pc = "update", ![p].timesUsed = timesUsed]
    /\ UNCHANGED <<role, invites, inviteUses, now, last, activated, options>>

\* The role update resolves; usageDate is read from getDate.
StepUpdateRole(p) ==
    /\ procs[p].pc = "update"
    /\ role' = [role EXCEPT ![procs[p].user] = roleForSignupWithInvite]
    /\ procs' = [procs EXCEPT ![p].pc = "create", ![p].usageDate = now]
    /\ UNCHANGED <<invites, inviteUses, now, last, activated, options>>

\* The usage row is created; the cookie is cleared and the handler returns.
StepCreateUse(p) ==
    /\ procs[p].pc = "create"
    /\ inviteUses' = Append(inviteUses,
                            UseRow(procs[p].invite, procs[p].user, procs[p].usageDate))
    /\ Finish(p, "accepted")
    /\ UNCHANGED <<role, invites, now, last, activated, options>>

\* The clock moves while handlers are in flight.
TickConc ==
    /\ now < MaxTime
    /\ now' = now + 1
    /\ UNCHANGED <<role, invites, inviteUses, last, activated, procs, options>>

NextConc ==
    \/ \E p \in Procs, u \in UserIds, ck \in CookieValues : BeginSignUp(p, u, ck)
    \/ \E p \in Procs, u \in UserIds, ck \in CookieValues : BeginSignIn(p, u, ck)
    \/ \E p \in Procs : StepFindUser(p)
    \/ \E p \in Procs : StepFindInvite(p)
    \/ \E p \in Procs : StepCount(p)
    \/ \E p \in Procs : StepUpdateRole(p)
    \/ \E p \in Procs : StepCreateUse(p)
    \/ TickConc

SpecConc == Init /\ [][NextConc]_vars

\* --------------------- the single-use after-hook, one await at a time

\* findOne resolves in the single-use hook; the used guard and the expiry
\* (getDate) are tested on the record that was read.
StepFindInviteSingle(p) ==
    /\ procs[p].pc = "findInvite"
    /\ LET id == FindInvite(procs[p].cookie) IN
       IF id = NoInvite THEN Finish(p, "notFound")
       ELSE IF AlreadyUsed(invites[id])
         THEN procs' = [procs EXCEPT ![p].pc = "done", ![p].outcome = "used",
                                     ![p].invite = id]
       ELSE IF ExpiredAtHook(invites[id], now)
         THEN procs' = [procs EXCEPT ![p].pc = "done", ![p].outcome = "expired",
                                     ![p].invite = id]
       ELSE procs' = [procs EXCEPT ![p].pc = "update", ![p].invite = id]
    /\ UNCHANGED <<role, invites, inviteUses, now, last, activated, options>>

\* The invite update resolves; the cookie is cleared and the handler returns.
StepMarkUsed(p) ==
    /\ procs[p].pc = "create"
    /\ invites' = MarkUsed(procs[p].cookie, procs[p].user, procs[p].usageDate)
    /\ Finish(p, "accepted")
    /\ UNCHANGED <<role, inviteUses, now, last, activated, options>>

NextConcSingle ==
    \/ \E p \in Procs, u \in UserIds, ck \in CookieValues : BeginSignUp(p, u, ck)
    \/ \E p \in Procs, u \in UserIds, ck \in CookieValues : BeginSignIn(p, u, ck)
    \/ \E p \in Procs : StepFindUser(p)
    \/ \E p \in Procs : StepFindInviteSingle(p)
    \/ \E p \in Procs : StepUpdateRole(p)
    \/ \E p \in Procs : StepMarkUsed(p)
    \/ TickConc

SpecConcSingle == InitSingle /\ [][NextConcSingle]_vars

\* ------------------------------------------------- vocabulary of the claims

\* The step is a matched sign-up or sign-in request with a new session.
HookRequest ==
    /\ last'.op \in {"signup", "signin"}
    /\ last'.user \in UserIds

\* The user of that request's new session, and the cookie the request carries.
ReqUser == last'.user
ReqCookie == last'.code

\* The role the after-hook finds for user u in that step: a sign-up has just
\* created the user with the host's default role.
RoleAtHook(u) == IF last'.op = "signup" THEN DefaultRole ELSE role[u]

\* The user table as the host hands it to the after-hook in that step.
RolesAtHook(u) == IF last'.op = "signup" THEN [role EXCEPT ![u] = DefaultRole] ELSE role

\* The code ck names a stored invite.
Exists(ck) == \E i \in 1..Len(invites) : invites[i].code = ck

\* The stored invite with code ck.
InviteOf(ck) == invites[CHOOSE i \in 1..Len(invites) : invites[i].code = ck]

\* The usage rows that reference the invite with code ck.
RowsOf(ck) == {i \in 1..Len(inviteUses) : inviteUses[i].inviteId = InviteOf(ck).id}

\* ------------------------------------------------------------------- C1

\* C1: with requests run one at a time, no invite ever has more invite_use rows
\* than its maxUses (an invite with maxUses = 1 has at most one row).
C1_UsesNeverExceedMaxUses ==
    \A i \in 1..Len(invites) :
        Cardinality({j \in 1..Len(inviteUses) : inviteUses[j].inviteId = invites[i].id})
            <= invites[i].maxUses

\* C1 witness: an invite is full and a further sign-up with its code was refused.
C1_Witness ==
    /\ last.outcome = "exhausted"
    /\ Exists(last.code)
    /\ Cardinality(RowsOf(last.code)) = InviteOf(last.code).maxUses

\* ------------------------------------------------------------------- C3

\* C3: a guest who completes a sign-up or sign-in carrying the cookie of a code
\* that exists, is not expired and has fewer rows than maxUses ends with the
\* role roleForSignupWithInvite.
C3_ValidInviteUpgradesGuest ==
    [][( /\ HookRequest
         /\ RoleAtHook(ReqUser) = roleForSignupWithoutInvite
         /\ Exists(ReqCookie)
         /\ now <= InviteOf(ReqCookie).expiresAt
         /\ Cardinality(RowsOf(ReqCookie)) < InviteOf(ReqCookie).maxUses )
       => role'[ReqUser] = roleForSignupWithInvite]_vars

\* C3 witness: a sign-up with a valid code was accepted and the user is upgraded.
C3_Witness ==
    /\ last.op = "signup"
    /\ last.outcome = "accepted"
    /\ role[last.user] = roleForSignupWithInvite

\* ------------------------------------------------------------------- C4

\* C4: an accepted consumption appends exactly one invite_use row: its inviteId
\* is the id of the invite found for the cookie's code, its usedByUserId the new
\* session's user, its usedAt the value getDate returned at consumption; every
\* earlier row is kept as it was.
C4_AcceptedAppendsOneRow ==
    [][last'.outcome = "accepted" =>
          /\ Exists(last'.code)
          /\ now' >= now
          /\ inviteUses' = Append(inviteUses,
                                  [inviteId |-> InviteOf(last'.code).id,
                                   usedByUserId |-> last'.user,
                                   usedAt |-> now'])]_vars

\* C4 witness: a second consumption was accepted, after an earlier row.
C4_Witness ==
    /\ last.outcome = "accepted"
    /\ Len(inviteUses) >= 2
    /\ inviteUses[Len(inviteUses)].usedByUserId = last.user

\* ------------------------------------------------------------------- C5

\* C5: a sign-up or sign-in without an invite cookie has no side effects in the
\* after-hook: the user keeps the role it came with (roleForSignupWithoutInvite
\* for a new user), no row is added, no invite changes, no cookie is written.
C5_NoCookieNoEffect ==
    [][(HookRequest /\ ReqCookie = NoCookie)
       => /\ role' = RolesAtHook(ReqUser)
          /\ inviteUses' = inviteUses
          /\ invites' = invites
          /\ last'.setCookie = NoSetCookie
          /\ last'.error = NoError]_vars

\* C5 witness: a user signed up without a cookie and is a guest.
C5_Witness ==
    /\ last.op = "signup"
    /\ last.code = NoCookie
    /\ last.user \in UserIds
    /\ role[last.user] = roleForSignupWithoutInvite

\* ------------------------------------------------------------------- C2

\* Two after-hook executions have finished for the same invite after both
\* counted its rows before either appended one: both read the same count.
Raced(p, q) ==
    /\ p # q
    /\ procs[p].pc = "done" /\ procs[q].pc = "done"
    /\ procs[p].outcome \in {"accepted", "exhausted"}
    /\ procs[q].outcome \in {"accepted", "exhausted"}
    /\ procs[p].invite = procs[q].invite
    /\ procs[p].timesUsed = procs[q].timesUsed

\* C2 as stated: whenever two executions for the same code both count before
\* either appends, both are accepted and the invite ends with maxUses + 1 rows.
C2_AsStated ==
    \A p \in Procs, q \in Procs :
        Raced(p, q) =>
            /\ procs[p].outcome = "accepted" /\ procs[q].outcome = "accepted"
            /\ CountUses(inviteUses, procs[p].invite) = invites[procs[p].invite].maxUses + 1

\* C2 amended: when both executions count before either appends and the count
\* they read is maxUses - 1 (one use left), both are accepted and the invite
\* ends with maxUses + 1 rows; with two concurrent executions no invite ever
\* has more than maxUses + 1 rows.
C2_RaceOvershootsByOne ==
    /\ \A i \in 1..Len(invites) :
           Cardinality({j \in 1..Len(inviteUses) : inviteUses[j].inviteId = invites[i].id})
               <= invites[i].maxUses + 1
    /\ \A p \in Procs, q \in Procs :
           (Raced(p, q) /\ procs[p].timesUsed = invites[procs[p].invite].maxUses - 1)
           => /\ procs[p].outcome = "accepted" /\ procs[q].outcome = "accepted"
              /\ Cardinality({j \in 1..Len(inviteUses) :
                                 inviteUses[j].inviteId = procs[p].invite})
                     = invites[procs[p].invite].maxUses + 1

\* C2 witness: two executions raced for the last use and both rows are stored.
C2_Witness ==
    \E p \in Procs, q \in Procs :
        /\ Raced(p, q)
        /\ procs[p].outcome = "accepted" /\ procs[q].outcome = "accepted"
        /\ procs[p].user # procs[q].user
        /\ procs[p].timesUsed = invites[procs[p].invite].maxUses - 1
        /\ CountUses(inviteUses, procs[p].invite) = invites[procs[p].invite].maxUses + 1

\* ------------------------------------------------------------------- C6

\* C6 as stated: every sign-up that carries the cookie of an invite whose row
\* count has reached maxUses ends with NO_USES_LEFT_FOR_INVITE_CODE (400), the
\* user left at roleForSignupWithoutInvite and the usage ledger unchanged.
C6_AsStated ==
    [][( /\ HookRequest
         /\ last'.op = "signup"
         /\ Exists(ReqCookie)
         /\ Cardinality(RowsOf(ReqCookie)) >= InviteOf(ReqCookie).maxUses )
       => /\ last'.error = NO_USES_LEFT_FOR_INVITE_CODE
          /\ last'.status = 400
          /\ role'[ReqUser] = roleForSignupWithoutInvite
          /\ inviteUses' = inviteUses]_vars

\* ------------------------------------------------------------------- C7

\* C7 as stated: a code that is not found, expired or exhausted in the
\* after-hook is never surfaced as an error; the request succeeds.
C7_AsStated ==
    (last.op \in {"signup", "signin"} /\ last.outcome \in {"notFound", "expired", "exhausted"})
    => (last.error = NoError /\ last.status = 200)

\* C7 amended: in the after-hook a code that is not found or is expired is
\* never surfaced (the request succeeds); a code that is exhausted and not
\* expired is surfaced as NO_USES_LEFT_FOR_INVITE_CODE (400); in all three cases
\* the account is kept, the user stays at the default role and no row is added.
C7_HookFailureOutcomes ==
    [][( /\ HookRequest
         /\ ReqCookie \in Codes
         /\ RoleAtHook(ReqUser) = roleForSignupWithoutInvite )
       => /\ ( \/ ~Exists(ReqCookie)
               \/ now > InviteOf(ReqCookie).expiresAt )
             => /\ last'.error = NoError /\ last'.status = 200
                /\ role' = RolesAtHook(ReqUser)
                /\ inviteUses' = inviteUses
          /\ ( /\ Exists(ReqCookie)
               /\ now <= InviteOf(ReqCookie).expiresAt
               /\ Cardinality(RowsOf(ReqCookie)) >= InviteOf(ReqCookie).maxUses )
             => /\ last'.error = NO_USES_LEFT_FOR_INVITE_CODE /\ last'.status = 400
                /\ role' = RolesAtHook(ReqUser)
                /\ inviteUses' = inviteUses]_vars

\* C7 witness: a sign-up with an expired code succeeded and left a guest.
C7_Witness ==
    /\ last.op = "signup"
    /\ last.outcome = "expired"
    /\ last.status = 200
    /\ role[last.user] = roleForSignupWithoutInvite

\* ------------------------------------------------------------------- C8

\* C8: at both validation sites an invite with uses left is accepted when now
\* is at or before expiresAt and rejected when now is after it.
C8_ExpiryBoundary ==
    [][( /\ Exists(last'.code)
         /\ Cardinality(RowsOf(last'.code)) < InviteOf(last'.code).maxUses )
       => /\ last'.op = "activate"
             => (last'.status = 200 <=> now <= InviteOf(last'.code).expiresAt)
          /\ (HookRequest /\ RoleAtHook(ReqUser) = roleForSignupWithoutInvite)
             => (last'.outcome = "accepted" <=> now <= InviteOf(ReqCookie).expiresAt)]_vars

\* C8 witness: an activate succeeded at now = expiresAt exactly.
C8_Witness ==
    /\ last.op = "activate"
    /\ last.status = 200
    /\ Exists(last.code)
    /\ now = InviteOf(last.code).expiresAt

\* ------------------------------------------------------------------- C9

\* C9: an after-hook run for a user who already has a usage row for the
\* cookie's invite adds no row and changes no role, however often it is replayed.
C9_ReplayConsumesNothing ==
    [][( /\ HookRequest
         /\ Exists(ReqCookie)
         /\ \E j \in RowsOf(ReqCookie) : inviteUses[j].usedByUserId = ReqUser )
       => /\ inviteUses' = inviteUses
          /\ role' = role]_vars

\* C9 witness: a replay for a user who consumed an invite that still has uses
\* left and is not expired.
C9_Witness ==
    /\ last.op = "signin"
    /\ last.code \in Codes
    /\ Exists(last.code)
    /\ \E j \in RowsOf(last.code) : inviteUses[j].usedByUserId = last.user
    /\ Cardinality(RowsOf(last.code)) < InviteOf(last.code).maxUses
    /\ now <= InviteOf(last.code).expiresAt

\* ------------------------------------------------------------------ C10

\* C10: a successful activate reserves nothing: when a code that was activated
\* has by the time of the sign-up or sign-in reached maxUses or passed
\* expiresAt, the after-hook adds no row and upgrades no user.
C10_ActivateReservesNothing ==
    [][( /\ HookRequest
         /\ ReqCookie \in activated
         /\ \/ Cardinality(RowsOf(ReqCookie)) >= InviteOf(ReqCookie).maxUses
            \/ now > InviteOf(ReqCookie).expiresAt )
       => /\ inviteUses' = inviteUses
          /\ role' = RolesAtHook(ReqUser)]_vars

\* C10 witness: a code was activated, was used up before the sign-up and the
\* sign-up carrying it was refused.
C10_Witness ==
    /\ last.op = "signup"
    /\ last.code \in activated
    /\ last.outcome = "exhausted"
    /\ role[last.user] = roleForSignupWithoutInvite

\* ------------------------------------------------------------------ C11

\* The plugin changed the role of u: only the fixture's creator of the seeded
\* invite holds roleForSignupWithInvite without the plugin having granted it.
PluginUpgraded(u) ==
    /\ role[u] = roleForSignupWithInvite
    /\ u # SeedInvite(1).createdByUserId

\* The usage row j was written while its invite had uses remaining: fewer than
\* maxUses rows of that invite precede it.
UsesRemainedAt(j, inv) ==
    Cardinality({k \in 1..(j - 1) : inviteUses[k].inviteId = inv.id}) < inv.maxUses

\* C11 as stated: each user the plugin upgraded has a usage row of their own
\* that references a stored invite, was written while the invite had uses
\* remaining and carries a usedAt at which the invite was not expired.
C11_AsStated ==
    \A u \in UserIds :
        PluginUpgraded(u) =>
            \E j \in 1..Len(inviteUses), i \in 1..Len(invites) :
                /\ inviteUses[j].usedByUserId = u
                /\ inviteUses[j].inviteId = invites[i].id
                /\ UsesRemainedAt(j, invites[i])
                /\ inviteUses[j].usedAt <= invites[i].expiresAt

\* Every plugin-upgraded user has a row of their own that references a stored
\* invite and was written while that invite had uses remaining.
C11_UpgradedHasRow ==
    \A u \in UserIds :
        PluginUpgraded(u) =>
            \E j \in 1..Len(inviteUses), i \in 1..Len(invites) :
                /\ inviteUses[j].usedByUserId = u
                /\ inviteUses[j].inviteId = invites[i].id
                /\ UsesRemainedAt(j, invites[i])

\* C11 (amended): with requests run one at a time, each user the plugin
\* upgraded to roleForSignupWithInvite has a usage row of their own referencing
\* a stored invite that had uses remaining when the row was written, and the
\* request that upgraded them wrote that row for an invite that existed, had
\* uses remaining and was not expired at the clock value the after-hook tested;
\* the row's usedAt is a later clock reading and may lie after expiresAt.
C11_NoUpgradeWithoutValidInvite ==
    /\ []C11_UpgradedHasRow
    /\ [][( /\ HookRequest
            /\ role'[ReqUser] = roleForSignupWithInvite
            /\ RoleAtHook(ReqUser) # roleForSignupWithInvite )
          => /\ Exists(ReqCookie)
             /\ now <= InviteOf(ReqCookie).expiresAt
             /\ Cardinality(RowsOf(ReqCookie)) < InviteOf(ReqCookie).maxUses
             /\ Len(inviteUses') = Len(inviteUses) + 1
             /\ inviteUses'[Len(inviteUses')].usedByUserId = ReqUser
             /\ inviteUses'[Len(inviteUses')].inviteId = InviteOf(ReqCookie).id]_vars

\* C11 witness: a user was upgraded by a request that ran at the last valid
\* instant of the invite and stamped its row after it.
C11_Witness ==
    /\ last.outcome = "accepted"
    /\ PluginUpgraded(last.user)
    /\ \E j \in 1..Len(inviteUses) :
           /\ inviteUses[j].usedByUserId = last.user
           /\ inviteUses[j].usedAt > InviteOf(last.code).expiresAt

\* ------------------------------------------------------------------ C12

\* The step is a call of create by a session user the user store holds.
CreateByStoredUser ==
    /\ last'.op = "create"
    /\ last'.user \in UserIds
    /\ role[last'.user] # Absent

\* The step stored exactly one new invite, after the ones already stored.
StoredOneInvite ==
    /\ Len(invites') = Len(invites) + 1
    /\ SubSeq(invites', 1, Len(invites)) = invites

\* C12: with no canCreateInvite configured, a stored session user whose role is
\* roleForSignupWithoutInvite gets INSUFFICIENT_PERMISSIONS (400) and nothing is
\* stored; a user with any other role, or with no string role, passes: the
\* call answers 201 and stores one invite with createdByUserId = the caller
\* (the store accepting the record, i.e. the generated code being unused).
C12_DefaultEligibility ==
    [][( /\ CreateByStoredUser
         /\ ~options.canCreateInvite.defined )
       => IF role[last'.user] = roleForSignupWithoutInvite
            THEN /\ last'.error = INSUFFICIENT_PERMISSIONS
                 /\ last'.status = 400
                 /\ invites' = invites
          ELSE /\ last'.error # INSUFFICIENT_PERMISSIONS
               /\ ~Exists(last'.code) =>
                      /\ last'.status = 201
                      /\ StoredOneInvite
                      /\ invites'[Len(invites')].createdByUserId = last'.user]_vars

\* C12 witness: a user whose record has no string role created an invite under
\* the default check.
C12_Witness ==
    /\ last.op = "create"
    /\ last.status = 201
    /\ ~options.canCreateInvite.defined
    /\ role[last.user] = NoRole
    /\ invites[Len(invites)].createdByUserId = last.user

\* ------------------------------------------------------------------ C13

\* C13: with a canCreateInvite predicate configured, a create by a stored
\* session user passes exactly when the predicate is true of that user, whatever
\* the user's role: true gives 201 and one stored invite (the store accepting
\* the record), false gives INSUFFICIENT_PERMISSIONS (400) and nothing stored.
C13_PredicateReplacesDefault ==
    [][( /\ CreateByStoredUser
         /\ options.canCreateInvite.defined )
       => IF last'.user \in options.canCreateInvite.accepts
            THEN /\ last'.error # INSUFFICIENT_PERMISSIONS
                 /\ ~Exists(last'.code) =>
                        /\ last'.status = 201
                        /\ StoredOneInvite
                        /\ invites'[Len(invites')].createdByUserId = last'.user
          ELSE /\ last'.error = INSUFFICIENT_PERMISSIONS
               /\ last'.status = 400
               /\ invites' = invites]_vars

\* C13 witness: a guest of whom the configured predicate is true created an
\* invite.
C13_Witness ==
    /\ last.op = "create"
    /\ last.status = 201
    /\ options.canCreateInvite.defined
    /\ last.user \in options.canCreateInvite.accepts
    /\ role[last.user] = roleForSignupWithoutInvite

\* ------------------------------------------------------------------ C14

C15_CreateStoresOneInvite ==
    [][( /\ last'.op = "create"
         /\ last'.status = 201 )
       => /\ StoredOneInvite
          /\ LET stored == invites'[Len(invites')] IN
               /\ last'.code \in Codes
               /\ stored.code = last'.code
               /\ stored.createdAt = now
               /\ stored.expiresAt = stored.createdAt + InviteDuration
               /\ stored.maxUses = 1]_vars

\* C15 witness: an invite was created after the clock had moved on, so that its
\* createdAt is the time of the call and not the fixture's.
C15_Witness ==
    /\ last.op = "create"
    /\ last.status = 201
    /\ now > 0
    /\ invites[Len(invites)].code = last.code
    /\ invites[Len(invites)].createdAt = now

\* ------------------------------------------------------------------ C16

\* C16: whatever its outcome, a call of activate leaves the invite table, the
\* invite_use table and every user's role unchanged; a failing call sets no
\* cookie either.
C16_ActivateChangesNoTable ==
    [][last'.op = "activate"
       => /\ invites' = invites
          /\ inviteUses' = inviteUses
          /\ role' = role
          /\ last'.status # 200 => last'.setCookie = NoSetCookie]_vars

\* C16 witness: an activate succeeded on an invite that has been used before
\* and still has a use left.
C16_Witness ==
    /\ last.op = "activate"
    /\ last.status = 200
    /\ Cardinality(RowsOf(last.code)) = 1
    /\ InviteOf(last.code).maxUses = 2

\* ------------------------------------------------------------------ C17

\* The code of the activate call of this step is valid: it exists, has uses
\* remaining and is not expired.
ValidAtActivate ==
    /\ Exists(last'.code)
    /\ Cardinality(RowsOf(last'.code)) < InviteOf(last'.code).maxUses
    /\ now <= InviteOf(last'.code).expiresAt

\* C17: activate sets the invite cookie exactly when the code exists, has uses
\* remaining and is not expired: the cookie's value is the submitted code, it
\* is httpOnly with path / and expires at the invite's expiresAt. Every failing
\* activate sets no cookie.
C17_CookieIffValid ==
    [][last'.op = "activate"
       => IF ValidAtActivate
            THEN /\ last'.status = 200
                 /\ last'.setCookie =
                        [set |-> TRUE, value |-> last'.code,
                         expires |-> InviteOf(last'.code).expiresAt,
                         httpOnly |-> TRUE, path |-> "/"]
          ELSE /\ last'.status = 400
               /\ last'.setCookie = NoSetCookie]_vars

\* C17 witness: an activate at the invite's last valid instant set the cookie.
C17_Witness ==
    /\ last.op = "activate"
    /\ last.setCookie.set
    /\ last.setCookie.value = last.code
    /\ now = InviteOf(last.code).expiresAt

\* ------------------------------------------------------------------ C18

\* C18: in activate exhaustion is checked before expiry. An existing invite
\* with at least maxUses rows is answered NO_USES_LEFT_FOR_INVITE_CODE, also
\* when it is expired; an existing code is answered INVALID_OR_EXPIRED_INVITE
\* exactly when uses remain and now is after expiresAt.
C18_ActivateExhaustionFirst ==
    [][( /\ last'.op = "activate"
         /\ Exists(last'.code) )
       => /\ Cardinality(RowsOf(last'.code)) >= InviteOf(last'.code).maxUses
                => last'.error = NO_USES_LEFT_FOR_INVITE_CODE
          /\ last'.error = INVALID_OR_EXPIRED_INVITE
                <=> /\ Cardinality(RowsOf(last'.code)) < InviteOf(last'.code).maxUses
                    /\ now > InviteOf(last'.code).expiresAt]_vars

\* C18 witness: an invite that is both used up and expired was answered
\* NO_USES_LEFT_FOR_INVITE_CODE by activate.
C18_Witness ==
    /\ last.op = "activate"
    /\ last.error = NO_USES_LEFT_FOR_INVITE_CODE
    /\ Cardinality(RowsOf(last.code)) >= InviteOf(last.code).maxUses
    /\ now > InviteOf(last.code).expiresAt

\* ------------------------------------------------------------------ C19

\* C19 as stated: the after-hook checks the uses first and expiry second, so a
\* guest whose cookie names an invite that is both used up and expired gets
\* the exhausted outcome, NO_USES_LEFT_FOR_INVITE_CODE.
C19_AsStated ==
    [][( /\ HookRequest
         /\ RoleAtHook(ReqUser) = roleForSignupWithoutInvite
         /\ Exists(ReqCookie)
         /\ Cardinality(RowsOf(ReqCookie)) >= InviteOf(ReqCookie).maxUses
         /\ now > InviteOf(ReqCookie).expiresAt )
       => /\ last'.outcome = "exhausted"
          /\ last'.error = NO_USES_LEFT_FOR_INVITE_CODE]_vars

\* ------------------------------------------------------------------ C20

\* C20 as stated: a code that does not exist and a code that exists but is
\* expired are both answered INVALID_OR_EXPIRED_INVITE with status 400.
C20_AsStated ==
    [][( /\ last'.op = "activate"
         /\ \/ ~Exists(last'.code)
            \/ now > InviteOf(last'.code).expiresAt )
       => /\ last'.error = INVALID_OR_EXPIRED_INVITE
          /\ last'.status = 400]_vars

\* C20 (amended): a code that does not exist and a code that exists, is expired
\* and still has uses remaining get the same response from activate, the error
\* INVALID_OR_EXPIRED_INVITE with status 400 and no cookie; an expired code
\* whose uses are spent is answered NO_USES_LEFT_FOR_INVITE_CODE instead.
C20_SameAnswerForMissingAndExpired ==
    [][last'.op = "activate"
       => /\ ( \/ ~Exists(last'.code)
               \/ /\ now > InviteOf(last'.code).expiresAt
                  /\ Cardinality(RowsOf(last'.code)) < InviteOf(last'.code).maxUses )
             => last' = Refuse("activate", NoSession, last'.code, INVALID_OR_EXPIRED_INVITE)
          /\ ( /\ Exists(last'.code)
               /\ now > InviteOf(last'.code).expiresAt
               /\ Cardinality(RowsOf(last'.code)) >= InviteOf(last'.code).maxUses )
             => last'.error = NO_USES_LEFT_FOR_INVITE_CODE]_vars

\* C20 witness: activate answered INVALID_OR_EXPIRED_INVITE for a stored code
\* that is expired with uses remaining while another code is not stored at all.
C20_Witness ==
    /\ last.op = "activate"
    /\ last.error = INVALID_OR_EXPIRED_INVITE
    /\ Exists(last.code)
    /\ Cardinality(RowsOf(last.code)) < InviteOf(last.code).maxUses
    /\ now > InviteOf(last.code).expiresAt
    /\ \E c \in Codes : ~Exists(c)

\* ------------------------------------------------------------------ C21

\* C21: the after-hook clears the invite cookie (empty value, expiry at the
\* epoch) exactly when the consumption was accepted, and then the role update
\* and the usage-row write have been done; on every other path (no new
\* session, non-guest user, no cookie, code not found, expired, exhausted) the
\* response sets no cookie, so the client's cookie stays as it was sent.
C21_CookieClearedIffAccepted ==
    [][last'.op \in {"signup", "signin"}
       => IF last'.outcome = "accepted"
            THEN /\ last'.setCookie =
                        [set |-> TRUE, value |-> "", expires |-> Epoch,
                         httpOnly |-> TRUE, path |-> "/"]
                 /\ role'[last'.user] = roleForSignupWithInvite
                 /\ Len(inviteUses') = Len(inviteUses) + 1
                 /\ inviteUses'[Len(inviteUses')].usedByUserId = last'.user
          ELSE /\ last'.outcome \in {"noSession", "notGuest", "noCookie",
                                      "notFound", "expired", "exhausted"}
               /\ last'.setCookie = NoSetCookie]_vars

\* C21 witness: an accepted sign-up cleared the cookie after the user was
\* upgraded and the row written.
C21_Witness ==
    /\ last.op = "signup"
    /\ last.outcome = "accepted"
    /\ last.setCookie.set
    /\ last.setCookie.value = ""
    /\ role[last.user] = roleForSignupWithInvite
    /\ inviteUses[Len(inviteUses)].usedByUserId = last.user

\* ------------------------------------------------------------------ C22

\* C22 as stated: the after-hook honours a code only when its cookie was
\* issued by a successful activate; a sign-up or sign-in whose cookie value was
\* never issued by activate adds no usage row and upgrades no user.
C22_AsStated ==
    [][( /\ HookRequest
         /\ ReqCookie \notin activated )
       => /\ inviteUses' = inviteUses
          /\ role' = RolesAtHook(ReqUser)]_vars

\* ------------------------------------------------------------------ C23

\* The table after the step is the table before it, with new records only at
\* its end.
OnlyAppended(before, after) ==
    /\ Len(after) >= Len(before)
    /\ SubSeq(after, 1, Len(before)) = before

\* C23: no operation of the plugin (create, activate, after-hook) updates or
\* deletes a stored invite, and invite_use rows are only ever appended; the
\* times an invite was used is the number of its rows, which a step raises by
\* at most one.
C23_TablesAppendOnly ==
    [][/\ OnlyAppended(invites, invites')
       /\ OnlyAppended(inviteUses, inviteUses')
       /\ \A i \in 1..Len(invites) :
             LET before == CountUses(inviteUses, invites[i].id)
                 after == CountUses(inviteUses', invites[i].id)
             IN after \in {before, before + 1}]_vars

\* C23 witness: a second invite was created and a second use recorded, with
\* the seeded invite and the first row still in place.
C23_Witness ==
    /\ Len(invites) = 2
    /\ Len(inviteUses) = 2
    /\ invites[1].code = "c1"
    /\ last.outcome = "accepted"

\* ------------------------------------------------------------------ C24

\* C24 as stated: every stored invite has expiresAt > createdAt, whatever
\* inviteDurationSeconds the configuration was given.
C24_AsStated ==
    \A i \in 1..Len(invites) : invites[i].expiresAt > invites[i].createdAt

\* ------------------------------------------------------------------ C25

\* No two stored invites share a code.
CodesUnique ==
    \A i \in 1..Len(invites), j \in 1..Len(invites) :
        invites[i].code = invites[j].code => i = j

\* C25: in every reachable state no two invite records share a code, and a
\* create for which generateCode returns a code that is already stored, also
\* the code of an expired or used-up invite, stores no record and does not
\* answer 201.
C25_CodesUniqueForever ==
    /\ []CodesUnique
    /\ [][( /\ last'.op = "create"
            /\ last'.code \in Codes
            /\ Exists(last'.code) )
          => /\ invites' = invites
             /\ last'.status # 201]_vars

\* C25 witness: generateCode returned the code of an invite that is expired
\* and used up, and the create stored nothing.
C25_Witness ==
    /\ last.op = "create"
    /\ last.code \in Codes
    /\ last.status = 500
    /\ now > InviteOf(last.code).expiresAt
    /\ Cardinality(RowsOf(last.code)) >= InviteOf(last.code).maxUses
    /\ CodesUnique

\* ------------------------------------------------------------------ C26

\* C26: hard gate: with signupRequiresInvite true a sign-up that carries no
\* invite cookie is rejected with AN_INVITE_CODE_IS_REQUIRED_TO_SIGN_UP (403)
\* and no account is created; with signupRequiresInvite false the same sign-up
\* succeeds and the account exists.
C26_HardGate ==
    [][( /\ last'.op = "signup"
         /\ last'.code = NoCookie )
       => IF options.signupRequiresInvite
            THEN /\ last'.error = AN_INVITE_CODE_IS_REQUIRED_TO_SIGN_UP
                 /\ last'.status = 403
                 /\ role' = role
                 /\ role'[last'.user] = Absent
                 /\ invites' = invites
          ELSE /\ last'.error = NoError
               /\ last'.status = 200
               /\ role[last'.user] = Absent
               /\ role'[last'.user] # Absent
               /\ invites' = invites]_vars

\* C26 witness: under the gate a sign-up without a cookie was rejected and the
\* user does not exist.
C26_Witness ==
    /\ last.op = "signup"
    /\ last.code = NoCookie
    /\ options.signupRequiresInvite
    /\ last.status = 403
    /\ role[last.user] = Absent

\* ------------------------------------------------------------------ C27

\* C27: single-use variant, requests one at a time: once an invite's usedAt is
\* set no step changes the record again, and a sign-up or sign-in that carries
\* the code of such an invite upgrades no user.
C27_UsedInviteStaysUsed ==
    [][/\ \A i \in 1..Len(invites) :
             invites[i].usedAt # NullDate => invites'[i] = invites[i]
       /\ ( /\ HookRequest
            /\ Exists(ReqCookie)
            /\ InviteOf(ReqCookie).usedAt # NullDate )
          => /\ role' = RolesAtHook(ReqUser)
             /\ invites' = invites]_vars

\* C27 witness: a second guest signed up with the code of an invite that is
\* used and not yet expired, and stayed a guest.
C27_Witness ==
    /\ last.op = "signup"
    /\ last.outcome = "used"
    /\ role[last.user] = roleForSignupWithoutInvite
    /\ InviteOf(last.code).usedByUserId \notin {NullUser, last.user}
    /\ now <= InviteOf(last.code).expiresAt

\* ------------------------------------------------------------------ C28

\* C28: single-use variant: when a guest signs up or in with the cookie of an
\* invite that exists, is unused and is not expired, the user's role becomes
\* roleForSignupWithInvite and the invite is marked used, with usedByUserId =
\* that user and usedAt = the value getDate returned at the consumption; the
\* invite's other fields and the other invites stay as they were.
C28_SingleUseConsumption ==
    [][( /\ HookRequest
         /\ RoleAtHook(ReqUser) = roleForSignupWithoutInvite
         /\ Exists(ReqCookie)
         /\ InviteOf(ReqCookie).usedAt = NullDate
         /\ now <= InviteOf(ReqCookie).expiresAt )
       => /\ role'[ReqUser] = roleForSignupWithInvite
          /\ Len(invites') = Len(invites)
          /\ \A i \in 1..Len(invites) :
                IF invites[i].code = ReqCookie
                THEN invites'[i] = [invites[i] EXCEPT !.usedByUserId = ReqUser,
                                                      !.usedAt = now']
                ELSE invites'[i] = invites[i]]_vars

\* C28 witness: a guest who had signed up without a cookie signed in later with
\* the cookie of a fresh invite and was upgraded; the invite carries the
\* user's id and the time of the sign-in.
C28_Witness ==
    /\ last.op = "signin"
    /\ last.outcome = "accepted"
    /\ role[last.user] = roleForSignupWithInvite
    /\ InviteOf(last.code).usedByUserId = last.user
    /\ InviteOf(last.code).usedAt = now
    /\ now > InviteOf(last.code).createdAt

\* ------------------------------------------------------------------ C29

\* C29: single-use variant: in every reachable state each invite has usedAt
\* set if and only if usedByUserId is set; the invite a create has just stored
\* has both unset and the invite a sign-up or sign-in has just consumed has
\* both set.
C29_UsedFieldsTogether ==
    /\ \A i \in 1..Len(invites) :
          invites[i].usedAt # NullDate <=> invites[i].usedByUserId # NullUser
    /\ last.outcome = "created" =>
          /\ invites[Len(invites)].code = last.code
          /\ invites[Len(invites)].usedAt = NullDate
          /\ invites[Len(invites)].usedByUserId = NullUser
    /\ last.outcome = "accepted" =>
          /\ InviteOf(last.code).usedAt # NullDate
          /\ InviteOf(last.code).usedByUserId = last.user

\* C29 witness: a fresh invite was created while another invite is consumed.
C29_Witness ==
    /\ last.outcome = "created"
    /\ invites[Len(invites)].usedAt = NullDate
    /\ \E i \in 1..Len(invites) :
          /\ invites[i].usedAt # NullDate
          /\ invites[i].usedByUserId \in UserIds

\* ------------------------------------------------------------------ C30

\* C30 as stated: single-use variant: redeem stages a code in the cookie only
\* when the invite exists, is unused and is not expired; redeeming an expired
\* or already used code fails and sets no cookie.
C30_AsStated ==
    [][last'.op = "redeem"
       => /\ last'.setCookie.set =>
                /\ Exists(last'.code)
                /\ InviteOf(last'.code).usedAt = NullDate
                /\ now <= InviteOf(last'.code).expiresAt
          /\ ( /\ Exists(last'.code)
               /\ \/ InviteOf(last'.code).usedAt # NullDate
                  \/ now > InviteOf(last'.code).expiresAt )
             => /\ last'.status # 200
                /\ ~last'.setCookie.set]_vars

\* ------------------------------------------------------------------ C31

\* C31: single-use variant: when the cookie's code is not found, already used
\* or expired, the after-hook does not fail the request and does not roll back
\* the sign-up: the response is 200 without an error, the user exists with the
\* role the host gave, no other role changes, every invite is unchanged and no
\* cookie is set.
C31_InvalidCodeIsIgnored ==
    [][( /\ HookRequest
         /\ RoleAtHook(ReqUser) = roleForSignupWithoutInvite
         /\ ReqCookie # NoCookie
         /\ \/ ~Exists(ReqCookie)
            \/ InviteOf(ReqCookie).usedAt # NullDate
            \/ now > InviteOf(ReqCookie).expiresAt )
       => /\ last'.error = NoError
          /\ last'.status = 200
          /\ role' = RolesAtHook(ReqUser)
          /\ role'[ReqUser] = roleForSignupWithoutInvite
          /\ invites' = invites
          /\ last'.setCookie = NoSetCookie]_vars

\* C31 witness: a sign-up with the cookie of an unused invite that has expired
\* went through and left the new user a guest.
C31_Witness ==
    /\ last.op = "signup"
    /\ last.outcome = "expired"
    /\ last.status = 200
    /\ role[last.user] = roleForSignupWithoutInvite
    /\ InviteOf(last.code).usedAt = NullDate

\* ------------------------------------------------------------------ C32

\* C32: multi-use variant: the role is updated before the usage row is
\* written and nothing compensates: when the row write fails after the role
\* update, the request ends in an error, the user is at
\* roleForSignupWithInvite, the ledger is unchanged, no cookie is set, and the
\* invite still has a use left for another user.
C32_NoCompensation ==
    [][last'.outcome = "writeFailed"
       => /\ last'.error # NoError
          /\ role'[ReqUser] = roleForSignupWithInvite
          /\ \A v \in UserIds \ {ReqUser} : role'[v] = role[v]
          /\ inviteUses' = inviteUses
          /\ last'.setCookie = NoSetCookie
          /\ Cardinality({j \in 1..Len(inviteUses') :
                              inviteUses'[j].inviteId = InviteOf(ReqCookie).id})
                < InviteOf(ReqCookie).maxUses
          /\ now <= InviteOf(ReqCookie).expiresAt]_vars

\* C32 witness: the row write failed for one user, who is upgraded without a
\* row, and the single use of the same invite was then consumed by another.
C32_Witness ==
    /\ last.outcome = "accepted"
    /\ InviteOf(last.code).maxUses = 1
    /\ Cardinality(RowsOf(last.code)) = 1
    /\ \E u \in UserIds \ {last.user} :
          /\ PluginUpgraded(u)
          /\ \A j \in 1..Len(inviteUses) : inviteUses[j].usedByUserId # u

\* ------------------------------------------------------------------ C33

\* C33 as stated: single-use variant under concurrency: of two after-hook
\* executions that carry the same code for two different guest users at most
\* one ends accepted with its user upgraded, and the invite's usedByUserId
\* names every user who was accepted with that code.
C33_AsStated ==
    \A p \in Procs, q \in Procs :
        ( /\ p # q
          /\ procs[p].pc = "done" /\ procs[q].pc = "done"
          /\ procs[p].cookie \in Codes
          /\ procs[p].cookie = procs[q].cookie
          /\ procs[p].user # procs[q].user )
        => /\ ~( /\ procs[p].outcome = "accepted"
                 /\ procs[q].outcome = "accepted" )
           /\ procs[p].outcome = "accepted"
                => invites[procs[p].invite].usedByUserId = procs[p].user

\* ------------------------------------------------------------------ C34

\* The cookie of the request in that step names an invite that exists, has
\* uses remaining and is not expired.
CookieValidAtHook ==
    /\ ReqCookie \in Codes
    /\ Exists(ReqCookie)
    /\ Cardinality(RowsOf(ReqCookie)) < InviteOf(ReqCookie).maxUses
    /\ now <= InviteOf(ReqCookie).expiresAt

\* C34: the after-hook acts only on users whose current role is
\* roleForSignupWithoutInvite: a sign-in that appends a row or changes a role
\* is by such a user, and a sign-in with a valid invite cookie by a user with
\* any other role, with no role, or with no record in the user store appends
\* no row, changes no role, raises no error and leaves the cookie in place.
C34_OnlyGuestsConsume ==
    [][ (last'.op = "signin" /\ last'.user \in UserIds)
        => /\ (inviteUses' # inviteUses \/ role' # role)
                => role[ReqUser] = roleForSignupWithoutInvite
           /\ (CookieValidAtHook /\ role[ReqUser] # roleForSignupWithoutInvite)
                => /\ inviteUses' = inviteUses
                   /\ role' = role
                   /\ last'.error = NoError
                   /\ last'.status = 200
                   /\ last'.setCookie = NoSetCookie ]_vars

\* Reached: with a user without a role and an admin in the store, a session
\* for a missing record has signed in with the valid code, which stays unused.
C34_Witness ==
    /\ last.op = "signin"
    /\ last.user \in UserIds
    /\ role[last.user] = Absent
    /\ \E u \in UserIds : role[u] = NoRole
    /\ \E u \in UserIds : role[u] = "admin"
    /\ last.code = SeedInvite(1).code
    /\ now <= invites[1].expiresAt
    /\ inviteUses = <<>>
    /\ last.outcome = "notGuest"

\* ------------------------------------------------------------------ C35

\* C35: a matched sign-up or sign-in request that produced no new session
\* consumes nothing: with a valid invite cookie present, the invite, the usage
\* ledger, every user's role and the cookie are unchanged, and no error is
\* raised.
C35_NoSessionNoConsumption ==
    [][ ( /\ last'.op \in {"signup", "signin"}
          /\ last'.user = NoSession
          /\ CookieValidAtHook )
        => /\ invites' = invites
           /\ inviteUses' = inviteUses
           /\ role' = role
           /\ last'.setCookie = NoSetCookie
           /\ last'.error = NoError ]_vars

\* Reached: a sign-in without a new session carried the valid, unused code
\* while a guest is stored.
C35_Witness ==
    /\ last.op = "signin"
    /\ last.user = NoSession
    /\ last.outcome = "noSession"
    /\ last.code = SeedInvite(1).code
    /\ now <= invites[1].expiresAt
    /\ inviteUses = <<>>
    /\ \E u \in UserIds : role[u] = roleForSignupWithoutInvite

\* ------------------------------------------------------------------ C36

\* The requests on which the plugin's after-hook is matched, as last.op
\* records them.
OnMatchedPath(op) ==
    op \in {"signup", "/sign-in/email", "/sign-in/email-otp", "/callback/:id"}

\* C36: consumption happens only after requests on the four matched paths: a
\* step that appends a usage row or changes a role is a request on one of
\* them, and a request on any other path, /invite/create and /invite/activate
\* included, leaves the usage rows and every role as they were.
C36_OnlyMatchedPathsConsume ==
    [][ /\ (inviteUses' # inviteUses \/ role' # role) => OnMatchedPath(last'.op)
        /\ ~OnMatchedPath(last'.op) => (inviteUses' = inviteUses /\ role' = role)
      ]_vars

\* Reached: a guest with the valid, unused code has opened a session on a
\* path the plugin does not match, after the code was activated, and is still
\* a guest.
C36_Witness ==
    /\ ~OnMatchedPath(last.op)
    /\ last.op \in SessionPaths
    /\ last.user \in UserIds
    /\ role[last.user] = roleForSignupWithoutInvite
    /\ last.code = SeedInvite(1).code
    /\ last.code \in activated
    /\ now <= invites[1].expiresAt
    /\ inviteUses = <<>>
    /\ Len(invites) > 1

\* ------------------------------------------------------------------ C37

\* The stored code c is exhausted or expired.
Spent(c) ==
    /\ Exists(c)
    /\ \/ Cardinality(RowsOf(c)) >= InviteOf(c).maxUses
       \/ now > InviteOf(c).expiresAt

\* The request of this step was an activate or an after-hook run with the
\* stored code c that was rejected as exhausted or expired.
RejectedAsSpent(c) ==
    /\ Exists(c)
    /\ last'.code = c
    /\ \/ /\ last'.op = "activate"
          /\ last'.error \in {NO_USES_LEFT_FOR_INVITE_CODE, INVALID_OR_EXPIRED_INVITE}
       \/ /\ HookRequest
          /\ last'.outcome \in {"exhausted", "expired"}

\* C37: no replay of an expired or exhausted code. With the clock never going
\* backwards, a code that activate or the after-hook rejects as exhausted or
\* expired is exhausted or expired, it stays so after every operation, and
\* while it is so every activate with it is refused without a cookie and
\* every after-hook run with it appends no row and upgrades no user.
C37_NoReplay ==
    [][\A c \in Codes :
          /\ RejectedAsSpent(c) => Spent(c)
          /\ Spent(c) => Spent(c)'
          /\ (Spent(c) /\ last'.op = "activate" /\ last'.code = c)
                => /\ last'.status = 400
                   /\ last'.setCookie = NoSetCookie
                   /\ activated' = activated
          /\ (Spent(c) /\ HookRequest /\ ReqCookie = c)
                => /\ last'.outcome # "accepted"
                   /\ inviteUses' = inviteUses
                   /\ role' = RolesAtHook(ReqUser) ]_vars

\* Reached: with a guest stored, activate has refused a stored code that is
\* expired and still has a use left.
C37_Witness ==
    /\ last.op = "activate"
    /\ last.status = 400
    /\ Exists(last.code)
    /\ Cardinality(RowsOf(last.code)) < InviteOf(last.code).maxUses
    /\ now > InviteOf(last.code).expiresAt
    /\ \E u \in UserIds : role[u] = roleForSignupWithoutInvite

\* ------------------------------------------------------------------ C38

\* C38 as stated: every invite_use row records a use inside the invite's
\* validity window: its usedAt is not after the expiresAt of the invite it
\* references, also when the clock advances between the expiry check and the
\* reading of the usage timestamp.
C38_AsStated ==
    \A j \in 1..Len(inviteUses), i \in 1..Len(invites) :
        inviteUses[j].inviteId = invites[i].id
            => inviteUses[j].usedAt <= invites[i].expiresAt

\* C38 (amended): a hook run that writes an invite_use row tested the expiry at
\* a clock reading that is not after the invite's expiresAt, and the row's
\* usedAt is the later reading taken for the usage timestamp: it is not before
\* the tested reading, it is not after expiresAt when the clock did not advance
\* in between, and otherwise it lies after expiresAt by at most that advance.
C38_StampedAfterPassedCheck ==
    [][( /\ HookRequest
         /\ Len(inviteUses') = Len(inviteUses) + 1 )
       => /\ Exists(ReqCookie)
          /\ now <= InviteOf(ReqCookie).expiresAt
          /\ inviteUses'[Len(inviteUses')].usedAt = now'
          /\ inviteUses'[Len(inviteUses')].usedAt >= now
          /\ now' = now
                => inviteUses'[Len(inviteUses')].usedAt <= InviteOf(ReqCookie).expiresAt
          /\ inviteUses'[Len(inviteUses')].usedAt - InviteOf(ReqCookie).expiresAt
                <= now' - now ]_vars

\* C38 witness: an invite has one row stamped inside its validity window and
\* one stamped after it, written by a run whose clock advanced after the check.
C38_Witness ==
    \E j \in 1..Len(inviteUses), k \in 1..Len(inviteUses) :
        /\ inviteUses[j].inviteId = invites[1].id
        /\ inviteUses[k].inviteId = invites[1].id
        /\ inviteUses[j].usedAt <= invites[1].expiresAt
        /\ inviteUses[k].usedAt = invites[1].expiresAt + 1

\* ------------------------------------------------------------------ C39

\* The after-hook, run in the current state for user u as a guest carrying the
\* cookie ck, accepts the consumption.
HookWouldAccept(u, ck) ==
    AfterHook([role EXCEPT ![u] = roleForSignupWithoutInvite], u, ck, 0).outcome
        = "accepted"

\* C39: the two validation sites accept the same inputs: for every stored
\* invite, number of usage rows and current time, and for a code that is not
\* stored, a call of activate succeeds if and only if the after-hook run at
\* that moment for a guest carrying the submitted code accepts.
C39_SameAcceptSet ==
    [][last'.op = "activate"
       => \A u \in UserIds :
             last'.status = 200 <=> HookWouldAccept(u, last'.code)]_vars

\* C39 witness: activate succeeded at the last valid instant of an invite that
\* has been used once and has one use left.
C39_Witness ==
    /\ last.op = "activate"
    /\ last.status = 200
    /\ now = InviteOf(last.code).expiresAt
    /\ Cardinality(RowsOf(last.code)) = 1
    /\ InviteOf(last.code).maxUses = 2

====
